---- MODULE Spec2Model ----
(***************************************************************************)
(* Model of acronsum.py (Acronis Backup Summary): one run of main(), which *)
(* loads the configuration, reads every message of a POP3 mailbox, stages  *)
(* its deletion, renders one summary and sends it with bounded retry, and  *)
(* then either closes the session (committing the deletes) or resets it.   *)
(*                                                                         *)
(* Text is modelled at character level: a string is a sequence of          *)
(* one-character strings, so splitlines, startswith, the substring test,   *)
(* rstrip and slicing are computed as Python computes them.                *)
(***************************************************************************)
EXTENDS Integers, Sequences, FiniteSets, TLC

(***************************************************************************)
(* Bounds of the model                                                     *)
(***************************************************************************)
\* largest number of messages in the mailbox at the start of a run
MaxMsgs == 2
\* largest number of lines of a body enumerated for the rendering checks
MaxLines == 3
\* largest number of lines before the final line of a failure body
MaxErrLines == 4
\* largest number of lines of a body enumerated for the summary line
MaxSumLines == 3

(***************************************************************************)
(* Program constants                                                       *)
(***************************************************************************)
\* @retry(wait_fixed=60000, ...)
wait_fixed == 60000
\* @retry(..., stop_max_attempt_number=15)
stop_max_attempt_number == 15
\* email_line[8:]
MessagePrefixLen == 8

(***************************************************************************)
(* String literals of the source, as character sequences                   *)
(***************************************************************************)
NL == "\n"
S_has_succeeded == <<"h","a","s"," ","s","u","c","c","e","e","d","e","d">>
S_has_failed == <<"h","a","s"," ","f","a","i","l","e","d">>
S_Error_code == <<"E","r","r","o","r"," ","c","o","d","e",":">>
S_Message == <<"M","e","s","s","a","g","e",":">>
Green == "#006400"
Red == "#FF0000"
Black == "#000000"

(***************************************************************************)
(* Python string primitives                                                *)
(***************************************************************************)
RECURSIVE SplitAcc(_, _, _)
SplitAcc(s, cur, acc) ==
  IF s = <<>>
    THEN (IF cur = <<>> THEN acc ELSE Append(acc, cur))
    ELSE IF Head(s) = NL
      THEN SplitAcc(Tail(s), <<>>, Append(acc, cur))
      ELSE SplitAcc(Tail(s), Append(cur, Head(s)), acc)

\* str.splitlines(): no empty last line after a final line break
splitlines(s) == SplitAcc(s, <<>>, <<>>)

\* str.startswith(prefix)
startswith(s, prefix) ==
  /\ Len(s) >= Len(prefix)
  /\ SubSeq(s, 1, Len(prefix)) = prefix

\* the `in` operator on strings: sub occurs somewhere in s
contains(s, sub) ==
  \E k \in 1..(Len(s) - Len(sub) + 1) : SubSeq(s, k, k + Len(sub) - 1) = sub

\* variant: one trailing c at most is removed
rstrip_one(s, c) ==
  IF s # <<>> /\ s[Len(s)] = c THEN SubSeq(s, 1, Len(s) - 1) ELSE s

RECURSIVE rstrip(_, _)
\* str.rstrip(c): every trailing c is removed
rstrip(s, c) ==
  IF s # <<>> /\ s[Len(s)] = c
    THEN rstrip(SubSeq(s, 1, Len(s) - 1), c)
    ELSE s

\* s[n:]
slice_from(s, n) == SubSeq(s, n + 1, Len(s))

\* filter(None, lines): the empty strings are dropped
filter_None(lines) == SelectSeq(lines, LAMBDA l : l # <<>>)

RECURSIVE UniqueAcc(_, _)
UniqueAcc(xs, acc) ==
  IF xs = <<>> THEN acc
  ELSE IF \E k \in 1..Len(acc) : acc[k] = Head(xs)
    THEN UniqueAcc(Tail(xs), acc)
    ELSE UniqueAcc(Tail(xs), Append(acc, Head(xs)))

\* more_itertools.unique_everseen: first occurrences, in order
unique_everseen(xs) == UniqueAcc(xs, <<>>)

(***************************************************************************)
(* extract_errors (lines 107-124)                                          *)
(***************************************************************************)
\* the local backup_error before its first assignment
Unbound == [bound |-> FALSE, val |-> <<>>]

\* the Error code: line held in backup_error has not been closed yet
Pending(backup_error, backup_errors) ==
  /\ backup_error.bound
  /\ \A k \in 1..Len(backup_errors) : backup_errors[k] # backup_error.val

RECURSIVE ExtractLoop_Flush(_, _, _)
\* variant: an Error code: line still waiting for its Message: line is
\* emitted on its own when the next Error code: line or the end is reached
ExtractLoop_Flush(email_lines, backup_error, backup_errors) ==
  IF email_lines = <<>>
    THEN [raised |-> FALSE,
          backup_errors |-> IF Pending(backup_error, backup_errors)
                              THEN Append(backup_errors, backup_error.val)
                              ELSE backup_errors]
    ELSE LET email_line == Head(email_lines) IN
      IF startswith(email_line, S_Error_code)
        THEN ExtractLoop_Flush(Tail(email_lines),
               [bound |-> TRUE, val |-> email_line],
               IF Pending(backup_error, backup_errors)
                 THEN Append(backup_errors, backup_error.val)
                 ELSE backup_errors)
      ELSE IF startswith(email_line, S_Message)
        THEN IF ~backup_error.bound
          THEN [raised |-> TRUE, backup_errors |-> backup_errors]
          ELSE LET be == backup_error.val \o <<":">>
                           \o slice_from(email_line, MessagePrefixLen)
               IN ExtractLoop_Flush(Tail(email_lines),
                              [bound |-> TRUE, val |-> be],
                              Append(backup_errors, be))
      ELSE ExtractLoop_Flush(Tail(email_lines), backup_error, backup_errors)

RECURSIVE ExtractLoop(_, _, _)
\* the for loop of extract_errors; reading backup_error while it is unbound
\* raises UnboundLocalError
ExtractLoop(email_lines, backup_error, backup_errors) ==
  IF email_lines = <<>>
    THEN [raised |-> FALSE, backup_errors |-> backup_errors]
    ELSE LET email_line == Head(email_lines) IN
      IF startswith(email_line, S_Error_code)
        THEN ExtractLoop(Tail(email_lines),
                         [bound |-> TRUE, val |-> email_line], backup_errors)
      ELSE IF startswith(email_line, S_Message)
        THEN IF ~backup_error.bound
          THEN [raised |-> TRUE, backup_errors |-> backup_errors]
          ELSE LET be == backup_error.val \o <<":">>
                           \o slice_from(email_line, MessagePrefixLen)
               IN ExtractLoop(Tail(email_lines),
                              [bound |-> TRUE, val |-> be],
                              Append(backup_errors, be))
      ELSE ExtractLoop(Tail(email_lines), backup_error, backup_errors)

\* '<ul><li>' + '</li><li>'.join(xs) + '</li></ul>' as the texts of its <li>
\* elements: joining nothing still leaves one empty <li>
ul_items(xs) == IF xs = <<>> THEN << <<>> >> ELSE xs

extract_errors(email_text) ==
  LET r == ExtractLoop(splitlines(email_text), Unbound, <<>>) IN
  [raised |-> r.raised,
   html_output |-> IF r.raised THEN <<>>
                   ELSE ul_items(unique_everseen(r.backup_errors))]

(***************************************************************************)
(* send_backups_email, the rendering loop (lines 140-170)                  *)
(***************************************************************************)
\* edata[1].astimezone(tzlocal()).strftime(...): the text shown for a date
formatted_date(d) == [local |-> d]

\* s.endswith(suffix)
endswith(s, suffix) ==
  /\ Len(s) >= Len(suffix)
  /\ SubSeq(s, Len(s) - Len(suffix) + 1, Len(s)) = suffix

\* variant: the failure text is only recognised at the end of the line
status_branch_suffix(last_line) ==
  IF contains(last_line, S_has_succeeded) THEN "succeeded"
  ELSE IF endswith(last_line, S_has_failed) THEN "failed"
  ELSE "other"

\* variant: the two tests in the opposite order
status_branch_swapped(last_line) ==
  IF contains(last_line, S_has_failed) THEN "failed"
  ELSE IF contains(last_line, S_has_succeeded) THEN "succeeded"
  ELSE "other"

\* the if / elif / else on last_line (lines 153-165)
status_branch(last_line) ==
  IF contains(last_line, S_has_succeeded) THEN "succeeded"
  ELSE IF contains(last_line, S_has_failed) THEN "failed"
  ELSE "other"

htmlColor(branch) ==
  CASE branch = "succeeded" -> Green
    [] branch = "failed" -> Red
    [] OTHER -> Black

NoItem == [color |-> "", text |-> <<>>, date |-> [local |-> 0], error_info |-> <<>>]

\* one pass of the loop body for edata = [body, date]: nothing for an empty
\* body, an exception, or one <li>
render_item(edata) ==
  IF edata.body = <<>>
    THEN [kind |-> "skip", exc |-> "", item |-> NoItem]
    ELSE LET nonempty == filter_None(splitlines(edata.body)) IN
      IF nonempty = <<>>
        THEN [kind |-> "raise", exc |-> "IndexError", item |-> NoItem]
        ELSE LET last_line == rstrip(nonempty[Len(nonempty)], ".")
                 branch == status_branch(last_line)
                 ex == IF branch = "failed" THEN extract_errors(edata.body)
                       ELSE [raised |-> FALSE, html_output |-> <<>>]
             IN IF ex.raised
               THEN [kind |-> "raise", exc |-> "UnboundLocalError", item |-> NoItem]
               ELSE [kind |-> "item", exc |-> "",
                     item |-> [color |-> htmlColor(branch),
                               text |-> last_line,
                               date |-> formatted_date(edata.date),
                               error_info |-> ex.html_output]]

RECURSIVE RenderLoop(_, _)
\* for edata in email_data: ... linesUL += '<li ...>'
RenderLoop(email_data, linesUL) ==
  IF email_data = <<>>
    THEN [raised |-> FALSE, exc |-> "", linesUL |-> linesUL]
    ELSE LET r == render_item(Head(email_data)) IN
      CASE r.kind = "raise" -> [raised |-> TRUE, exc |-> r.exc, linesUL |-> linesUL]
        [] r.kind = "skip" -> RenderLoop(Tail(email_data), linesUL)
        [] OTHER -> RenderLoop(Tail(email_data), Append(linesUL, r.item))

(***************************************************************************)
(* Inputs: message bodies and mailbox contents                             *)
(***************************************************************************)
\* bodies of the messages of a run
B_empty == <<>>
B_blank == <<NL>>
B_ok == <<"A"," ","h","a","s"," ","s","u","c","c","e","e","d","e","d",".">>
B_fail == <<"E","r","r","o","r"," ","c","o","d","e",":","5","\n","M","e","s","s","a","g","e",":","D","\n","B"," ","h","a","s"," ","f","a","i","l","e","d",".">>
B_orphan == <<"M","e","s","s","a","g","e",":","D","\n","B"," ","h","a","s"," ","f","a","i","l","e","d",".">>
MsgBodies == {B_empty, B_blank, B_ok, B_fail, B_orphan}

Part(ctype, payload) == [ctype |-> ctype, payload |-> payload]
PlainMsg(body, has_date) ==
  [has_date |-> has_date, parts |-> << Part("text/plain", body) >>]

\* the kinds of message a mailbox holds: a plain-text message with each body,
\* an HTML-only message, a multipart message with one or with two text/plain
\* parts, and a plain-text message without a Date header
MsgShapes ==
  {PlainMsg(b, TRUE) : b \in MsgBodies}
  \cup {[has_date |-> TRUE, parts |-> << Part("text/html", <<>>) >>],
        [has_date |-> TRUE,
         parts |-> << Part("multipart/alternative", <<>>),
                      Part("text/plain", B_ok), Part("text/html", <<>>) >>],
        [has_date |-> TRUE,
         parts |-> << Part("multipart/mixed", <<>>),
                      Part("text/plain", B_ok), Part("text/plain", B_fail) >>],
        PlainMsg(B_ok, FALSE)}

Mailboxes == UNION {[1..n -> MsgShapes] : n \in 0..MaxMsgs}

\* lines of the bodies enumerated for the rendering checks
BodyLines ==
  {<<>>, <<" ">>,
   <<"E","r","r","o","r"," ","c","o","d","e",":","5">>,
   <<"M","e","s","s","a","g","e",":","D">>,
   <<"A"," ","h","a","s"," ","s","u","c","c","e","e","d","e","d",".">>,
   <<"B"," ","h","a","s"," ","f","a","i","l","e","d",".">>,
   <<"B"," ","h","a","s"," ","f","a","i","l","e","d"," ","x">>,
   <<"h","a","s"," ","s","u","c","c","e","e","d","e","d"," ","h","a","s"," ","f","a","i","l","e","d">>}

RECURSIVE JoinLines(_)
JoinLines(ls) ==
  IF ls = <<>> THEN <<>>
  ELSE IF Len(ls) = 1 THEN ls[1]
  ELSE ls[1] \o <<NL>> \o JoinLines(Tail(ls))

\* every body of at most MaxLines of those lines, with or without a final
\* line break
AllBodies ==
  {JoinLines(ls) \o end :
     ls \in UNION {[1..n -> BodyLines] : n \in 0..MaxLines},
     end \in {<<>>, <<NL>>}}

(***************************************************************************)
(* State                                                                   *)
(***************************************************************************)
VARIABLES
  pc,             \* position of the run in main / process_emails
  outcome,        \* how the run ended: "running" until then
  mailbox,        \* the messages on the server when the run starts
  durable,        \* numbers of the messages the server still holds
  deleted,        \* numbers marked deleted in the open session (staged)
  session,        \* state of the POP3 session
  popLog,         \* POP3 commands issued, in order: <<command, argument>>
  num_messages,   \* len(m.list()[1])
  i,              \* loop variable of range(num_messages)
  email_data,     \* [body, date] of every text/plain part read
  linesUL,        \* the <li> items of the summary
  msgKind,        \* message built for sending: "summary" or "empty"
  attempt_number, \* attempts of send_email made by the retry wrapper
  attemptErr,     \* exception of the last failed attempt
  waited,         \* milliseconds slept between attempts
  accepted,       \* messages the SMTP server accepted
  sendResult,     \* "returned" or "raised" once the send_*_email call ended
  sendErr,        \* the exception that call raised
  fault,          \* some POP3 or SMTP call failed
  log             \* records written at INFO or ERROR level

vars == <<pc, outcome, mailbox, durable, deleted, session, popLog, num_messages,
          i, email_data, linesUL, msgKind, attempt_number, attemptErr, waited,
          accepted, sendResult, sendErr, fault, log>>

popVars == <<durable, deleted, session, popLog>>
loopVars == <<num_messages, i, email_data>>
sendVars == <<linesUL, msgKind, attempt_number, attemptErr, waited, accepted,
              sendResult, sendErr>>

InitRun(mbox) ==
  /\ mailbox = mbox
  /\ durable = 1..Len(mbox)
  /\ outcome = "running"
  /\ linesUL = <<>>
  /\ msgKind = "none"
  /\ attempt_number = 0
  /\ attemptErr = "none"
  /\ waited = 0
  /\ accepted = 0
  /\ sendResult = "none"
  /\ sendErr = "none"
  /\ fault = FALSE

Init ==
  /\ \E mbox \in Mailboxes : InitRun(mbox)
  /\ pc = "main"
  /\ deleted = {}
  /\ session = "none"
  /\ popLog = <<>>
  /\ num_messages = 0
  /\ i = 0
  /\ email_data = <<>>
  /\ log = <<>>

(***************************************************************************)
(* The POP3 server and the ways a call ends                                *)
(***************************************************************************)
\* an exception nothing catches: the process ends and the connection drops
\* without QUIT, so the server never enters its UPDATE state
Crash ==
  /\ pc' = "crashed"
  /\ outcome' = "Crashed"
  /\ session' = "dropped"

Issue(cmd, arg) == popLog' = Append(popLog, <<cmd, arg>>)

\* QUIT in the TRANSACTION state: the messages marked deleted are removed
ServerQuit ==
  /\ durable' = durable \ deleted
  /\ deleted' = {}
  /\ session' = "closed"

(***************************************************************************)
(* main (lines 209-225)                                                    *)
(***************************************************************************)
\* variant: the failure is logged and the run goes on to the mailbox
LoadConfig_GoOn ==
  /\ pc = "main"
  /\ pc' = "connect"
  /\ \E ok \in BOOLEAN :
       IF ok
         THEN UNCHANGED <<outcome, log>>
         ELSE /\ outcome' = "ConfigError"
              /\ log' = Append(log, <<"error", "Could not load configuration">>)
  /\ UNCHANGED <<mailbox, popVars, loopVars, sendVars, fault>>

LoadConfig ==
  /\ pc = "main"
  /\ \E ok \in BOOLEAN :
       IF ok
         THEN /\ pc' = "connect"
              /\ UNCHANGED <<outcome, log>>
         ELSE /\ pc' = "done"
              /\ outcome' = "ConfigError"
              /\ log' = Append(log, <<"error", "Could not load configuration">>)
  /\ UNCHANGED <<mailbox, popVars, loopVars, sendVars, fault>>

(***************************************************************************)
(* process_emails (lines 53-104)                                           *)
(***************************************************************************)
\* m = poplib.POP3_SSL(mail_server)
Connect ==
  /\ pc = "connect"
  /\ Issue("connect", 0)
  /\ \E ok \in BOOLEAN :
       IF ok
         THEN /\ pc' = "user"
              /\ session' = "authorization"
              /\ UNCHANGED <<outcome, fault>>
         ELSE Crash /\ fault' = TRUE
  /\ UNCHANGED <<mailbox, durable, deleted, loopVars, sendVars, log>>

\* m.user(pop_user)
User ==
  /\ pc = "user"
  /\ Issue("user", 0)
  /\ \E ok \in BOOLEAN :
       IF ok
         THEN /\ pc' = "pass"
              /\ UNCHANGED <<outcome, session, fault>>
         ELSE Crash /\ fault' = TRUE
  /\ UNCHANGED <<mailbox, durable, deleted, loopVars, sendVars, log>>

\* m.pass_(pop_password)
Pass ==
  /\ pc = "pass"
  /\ Issue("pass", 0)
  /\ \E ok \in BOOLEAN :
       IF ok
         THEN /\ pc' = "list"
              /\ session' = "transaction"
              /\ UNCHANGED <<outcome, fault>>
         ELSE Crash /\ fault' = TRUE
  /\ UNCHANGED <<mailbox, durable, deleted, loopVars, sendVars, log>>

\* num_messages = len(m.list()[1]); if num_messages > 0
List ==
  /\ pc = "list"
  /\ Issue("list", 0)
  /\ \E ok \in BOOLEAN :
       IF ok
         THEN /\ num_messages' = Cardinality(durable \ deleted)
              /\ pc' = IF num_messages' > 0 THEN "retr" ELSE "quit_empty"
              /\ UNCHANGED <<outcome, session, fault>>
         ELSE Crash /\ fault' = TRUE /\ UNCHANGED num_messages
  /\ UNCHANGED <<mailbox, durable, deleted, i, email_data, sendVars, log>>

RECURSIVE Walk_FirstPlain(_, _, _, _)
\* variant: the walk stops at the first text/plain part
Walk_FirstPlain(parts, date, data, logs) ==
  IF parts = <<>>
    THEN [raised |-> FALSE, data |-> data, logs |-> logs]
    ELSE LET part == Head(parts) IN
      IF part.ctype = "text/plain"
        THEN IF date = 0
          THEN [raised |-> TRUE, data |-> data, logs |-> logs]
          ELSE [raised |-> FALSE,
                data |-> Append(data, [body |-> part.payload, date |-> date]),
                logs |-> logs]
        ELSE Walk_FirstPlain(Tail(parts), date, data,
                  Append(logs, <<"info", "Ignoring message of type", part.ctype>>))

RECURSIVE Walk(_, _, _, _)
\* for part in parsed_email.walk(): a text/plain part is appended with the
\* parsed Date header (dateutil raises when the header is missing), any other
\* part is logged and ignored
Walk(parts, date, data, logs) ==
  IF parts = <<>>
    THEN [raised |-> FALSE, data |-> data, logs |-> logs]
    ELSE LET part == Head(parts) IN
      IF part.ctype = "text/plain"
        THEN IF date = 0
          THEN [raised |-> TRUE, data |-> data, logs |-> logs]
          ELSE Walk(Tail(parts), date,
                    Append(data, [body |-> part.payload, date |-> date]), logs)
        ELSE Walk(Tail(parts), date, data,
                  Append(logs, <<"info", "Ignoring message of type", part.ctype>>))

\* the value of the Date header of message k: its number, 0 when missing
DateOf(k) == IF mailbox[k].has_date THEN k ELSE 0

\* raw_email = m.retr(i+1) and the walk over its parts (lines 67-79)
Retr ==
  /\ pc = "retr"
  /\ Issue("retr", i + 1)
  /\ \E ok \in BOOLEAN :
       IF ok
         THEN LET w == Walk(mailbox[i + 1].parts, DateOf(i + 1), email_data, log) IN
              /\ log' = w.logs
              /\ email_data' = w.data
              /\ IF w.raised
                   THEN Crash
                   ELSE pc' = "dele" /\ UNCHANGED <<outcome, session>>
              /\ UNCHANGED fault
         ELSE Crash /\ fault' = TRUE /\ UNCHANGED <<email_data, log>>
  /\ UNCHANGED <<mailbox, durable, deleted, num_messages, i, sendVars>>

\* variant: only a message that had a text/plain part is marked deleted
Dele_OnlyPlain ==
  /\ pc = "dele"
  /\ i' = i + 1
  /\ pc' = IF i + 1 < num_messages THEN "retr" ELSE "render"
  /\ IF \E k \in 1..Len(mailbox[i + 1].parts) :
          mailbox[i + 1].parts[k].ctype = "text/plain"
       THEN Issue("dele", i + 1) /\ deleted' = deleted \cup {i + 1}
       ELSE UNCHANGED <<popLog, deleted>>
  /\ UNCHANGED <<outcome, session, fault, mailbox, durable, num_messages,
                 email_data, sendVars, log>>

\* variant: a failing dele is ignored and the loop goes on
Dele_IgnoreError ==
  /\ pc = "dele"
  /\ Issue("dele", i + 1)
  /\ i' = i + 1
  /\ pc' = IF i + 1 < num_messages THEN "retr" ELSE "render"
  /\ \E ok \in BOOLEAN :
       IF ok
         THEN deleted' = deleted \cup {i + 1} /\ UNCHANGED fault
         ELSE fault' = TRUE /\ UNCHANGED deleted
  /\ UNCHANGED <<outcome, session, mailbox, durable, num_messages, email_data,
                 sendVars, log>>

\* m.dele(i+1), and the step of the for loop
Dele ==
  /\ pc = "dele"
  /\ Issue("dele", i + 1)
  /\ \E ok \in BOOLEAN :
       IF ok
         THEN /\ deleted' = deleted \cup {i + 1}
              /\ i' = i + 1
              /\ pc' = IF i + 1 < num_messages THEN "retr" ELSE "render"
              /\ UNCHANGED <<outcome, session, fault>>
         ELSE Crash /\ fault' = TRUE /\ UNCHANGED <<deleted, i>>
  /\ UNCHANGED <<mailbox, durable, num_messages, email_data, sendVars, log>>

\* variant: an exception of the rendering is swallowed and the run goes on as
\* if the summary had been sent
BuildReport_IgnoreRaise ==
  /\ pc = "render"
  /\ msgKind' = "summary"
  /\ LET r == RenderLoop(email_data, <<>>) IN
       IF r.raised
         THEN /\ sendResult' = "raised"
              /\ sendErr' = r.exc
              /\ pc' = "sent"
              /\ UNCHANGED linesUL
         ELSE /\ linesUL' = r.linesUL
              /\ pc' = "attempt"
              /\ UNCHANGED <<sendResult, sendErr>>
  /\ UNCHANGED <<outcome, mailbox, popVars, loopVars, attempt_number, attemptErr,
                 waited, accepted, fault, log>>

\* variant: with nothing fetched the empty notice is built in place of the
\* summary
BuildReport_EmptyNotice ==
  /\ pc = "render"
  /\ msgKind' = IF email_data = <<>> THEN "empty" ELSE "summary"
  /\ LET r == RenderLoop(email_data, <<>>) IN
       IF r.raised
         THEN /\ sendResult' = "raised"
              /\ sendErr' = r.exc
              /\ pc' = "except"
              /\ UNCHANGED linesUL
         ELSE /\ linesUL' = r.linesUL
              /\ pc' = "attempt"
              /\ UNCHANGED <<sendResult, sendErr>>
  /\ UNCHANGED <<outcome, mailbox, popVars, loopVars, attempt_number, attemptErr,
                 waited, accepted, fault, log>>

\* send_backups_email up to the call of send_email (lines 132-179): the
\* message is built and the items rendered; an exception of the rendering
\* leaves the function at once
BuildReport ==
  /\ pc = "render"
  /\ msgKind' = "summary"
  /\ LET r == RenderLoop(email_data, <<>>) IN
       IF r.raised
         THEN /\ sendResult' = "raised"
              /\ sendErr' = r.exc
              /\ pc' = "except"
              /\ UNCHANGED linesUL
         ELSE /\ linesUL' = r.linesUL
              /\ pc' = "attempt"
              /\ UNCHANGED <<sendResult, sendErr>>
  /\ UNCHANGED <<outcome, mailbox, popVars, loopVars, attempt_number, attemptErr,
                 waited, accepted, fault, log>>

\* the outcomes of one pass through the body of send_email: it returns, or
\* SMTP(), send_message() or quit() raises
SmtpOutcomes == {"ok", "connect", "send_message", "quit"}

\* one attempt of send_email (lines 203-206); the server has accepted the
\* message once send_message returned
SendAttempt ==
  /\ pc = "attempt"
  /\ attempt_number' = attempt_number + 1
  /\ \E o \in SmtpOutcomes :
       /\ accepted' = IF o \in {"ok", "quit"} THEN accepted + 1 ELSE accepted
       /\ IF o = "ok"
            THEN /\ sendResult' = "returned"
                 /\ pc' = IF msgKind = "summary" THEN "sent" ELSE "empty_sent"
                 /\ UNCHANGED <<attemptErr, fault>>
            ELSE /\ attemptErr' = o
                 /\ fault' = TRUE
                 /\ pc' = "retry"
                 /\ UNCHANGED sendResult
  /\ UNCHANGED <<outcome, mailbox, popVars, loopVars, linesUL, msgKind, waited,
                 sendErr, log>>

\* variant: the wrapper has no attempt limit
RetryWait_Unbounded ==
  /\ pc = "retry"
  /\ waited' = waited + wait_fixed
  /\ pc' = "attempt"
  /\ UNCHANGED <<outcome, mailbox, popVars, loopVars, linesUL, msgKind,
                 attempt_number, attemptErr, accepted, sendResult, sendErr,
                 fault, log>>

\* the retry wrapper after a failed attempt, below the attempt limit: sleep
\* wait_fixed milliseconds and call again (line 198)
RetryWait ==
  /\ pc = "retry"
  /\ attempt_number < stop_max_attempt_number
  /\ waited' = waited + wait_fixed
  /\ pc' = "attempt"
  /\ UNCHANGED <<outcome, mailbox, popVars, loopVars, linesUL, msgKind,
                 attempt_number, attemptErr, accepted, sendResult, sendErr,
                 fault, log>>

\* variant: the wrapper may give up one attempt early
RetryStop_OffByOne ==
  /\ pc = "retry"
  /\ attempt_number >= stop_max_attempt_number - 1
  /\ sendResult' = "raised"
  /\ sendErr' = attemptErr
  /\ pc' = IF msgKind = "summary" THEN "except" ELSE "empty_failed"
  /\ UNCHANGED <<outcome, mailbox, popVars, loopVars, linesUL, msgKind,
                 attempt_number, attemptErr, waited, accepted, fault, log>>

\* the retry wrapper at the attempt limit: the exception of the last attempt
\* is raised again (line 198)
RetryStop ==
  /\ pc = "retry"
  /\ attempt_number >= stop_max_attempt_number
  /\ sendResult' = "raised"
  /\ sendErr' = attemptErr
  /\ pc' = IF msgKind = "summary" THEN "except" ELSE "empty_failed"
  /\ UNCHANGED <<outcome, mailbox, popVars, loopVars, linesUL, msgKind,
                 attempt_number, attemptErr, waited, accepted, fault, log>>

\* variant: the handler closes the session without resetting it first
Rset_QuitFirst ==
  /\ pc = "except"
  /\ log' = Append(log, <<"error", "Could not send backup log summary email">>)
  /\ Issue("quit", Cardinality(deleted))
  /\ ServerQuit
  /\ pc' = "done"
  /\ outcome' = "Aborted"
  /\ UNCHANGED <<mailbox, loopVars, sendVars, fault>>

\* except Exception: logger.error(...); m.rset() (lines 85-89)
Rset ==
  /\ pc = "except"
  /\ log' = Append(log, <<"error", "Could not send backup log summary email">>)
  /\ Issue("rset", 0)
  /\ \E ok \in BOOLEAN :
       IF ok
         THEN /\ deleted' = {}
              /\ pc' = "quit_abort"
              /\ UNCHANGED <<outcome, session, fault>>
         ELSE Crash /\ fault' = TRUE /\ UNCHANGED deleted
  /\ UNCHANGED <<mailbox, durable, loopVars, sendVars>>

\* how a quit() call ends: the server closed the session and the call
\* returned; it closed the session but the reply was lost; or the command
\* never reached it
QuitOutcomes == {"ok", "lost_reply", "not_sent"}

Quit(o, next, result) ==
  /\ Issue("quit", Cardinality(deleted))
  /\ IF o = "not_sent"
       THEN session' = "dropped" /\ UNCHANGED <<durable, deleted>>
       ELSE ServerQuit
  /\ IF o = "ok"
       THEN pc' = next /\ outcome' = result /\ UNCHANGED fault
       ELSE pc' = "crashed" /\ outcome' = "Crashed" /\ fault' = TRUE

\* m.quit() after m.rset() (line 90)
QuitAbort ==
  /\ pc = "quit_abort"
  /\ \E o \in QuitOutcomes : Quit(o, "done", "Aborted")
  /\ UNCHANGED <<mailbox, loopVars, sendVars, log>>

\* else: logger.info(...); m.quit() (lines 91-93)
QuitCommit ==
  /\ pc = "sent"
  /\ log' = Append(log, <<"info", "Backup log summary email sent">>)
  /\ \E o \in QuitOutcomes : Quit(o, "done", "Committed")
  /\ UNCHANGED <<mailbox, loopVars, sendVars>>

\* variant: the empty branch resets the session before closing it
QuitEmpty_WithRset ==
  /\ pc = "quit_empty"
  /\ popLog' = popLog \o << <<"rset", 0>>, <<"quit", Cardinality(deleted)>> >>
  /\ ServerQuit
  /\ pc' = "send_empty"
  /\ UNCHANGED <<outcome, fault, mailbox, loopVars, sendVars, log>>

\* no messages found: m.quit() (lines 94-96)
QuitEmpty ==
  /\ pc = "quit_empty"
  /\ \E o \in QuitOutcomes : Quit(o, "send_empty", "running")
  /\ UNCHANGED <<mailbox, loopVars, sendVars, log>>

\* send_no_messages_email up to the call of send_email (lines 190-194)
BuildEmpty ==
  /\ pc = "send_empty"
  /\ msgKind' = "empty"
  /\ pc' = "attempt"
  /\ UNCHANGED <<outcome, mailbox, popVars, loopVars, linesUL, attempt_number,
                 attemptErr, waited, accepted, sendResult, sendErr, fault, log>>

\* except Exception: logger.error(...) (lines 99-102)
EmptyFailed ==
  /\ pc = "empty_failed"
  /\ log' = Append(log, <<"error", "Could not send backup log empty email">>)
  /\ pc' = "done"
  /\ outcome' = "EmptyNotSent"
  /\ UNCHANGED <<mailbox, popVars, loopVars, sendVars, fault>>

\* else: logger.info(...) (lines 103-104)
EmptySent ==
  /\ pc = "empty_sent"
  /\ log' = Append(log, <<"info", "Backup log empty email sent">>)
  /\ pc' = "done"
  /\ outcome' = "EmptySent"
  /\ UNCHANGED <<mailbox, popVars, loopVars, sendVars, fault>>

Next ==
  \/ LoadConfig
  \/ Connect
  \/ User
  \/ Pass
  \/ List
  \/ Retr
  \/ Dele
  \/ BuildReport
  \/ SendAttempt
  \/ RetryWait
  \/ RetryStop
  \/ Rset
  \/ QuitAbort
  \/ QuitCommit
  \/ QuitEmpty
  \/ BuildEmpty
  \/ EmptyFailed
  \/ EmptySent

Spec == Init /\ [][Next]_vars

(***************************************************************************)
(* The rendering on its own: the run stands before send_backups_email with *)
(* one plain-text message fetched, whose body ranges over AllBodies.       *)
(***************************************************************************)
InitRender ==
  /\ \E body \in AllBodies :
       /\ InitRun(<< PlainMsg(body, TRUE) >>)
       /\ email_data = << [body |-> body, date |-> 1] >>
  /\ pc = "render"
  /\ deleted = {1}
  /\ session = "transaction"
  /\ popLog = << <<"connect", 0>>, <<"user", 0>>, <<"pass", 0>>, <<"list", 0>>,
                 <<"retr", 1>>, <<"dele", 1>> >>
  /\ num_messages = 1
  /\ i = 1
  /\ log = <<>>

NextRender == BuildReport

SpecRender == InitRender /\ [][NextRender]_vars

(***************************************************************************)
(* Vocabulary of the properties                                            *)
(***************************************************************************)
AllMsgs == 1..Len(mailbox)
Terminal == pc \in {"done", "crashed"}
Issued(cmd) == {k \in 1..Len(popLog) : popLog[k][1] = cmd}
\* quit commands sent while deletes were staged: the commits
QuitsWithPending == {k \in Issued("quit") : popLog[k][2] > 0}
TransportErrors == SmtpOutcomes \ {"ok"}
RenderErrors == {"IndexError", "UnboundLocalError"}
Idx(n) == [k \in 1..n |-> k]

(***************************************************************************)
(* C1                                                                      *)
(***************************************************************************)
\* C1: a message leaves the mailbox, and a quit is sent while deletes are
\* staged, only after send_backups_email has returned without raising (the
\* SMTP server accepted the summary).
C1_DeleteOnlyAfterDelivery ==
  /\ (durable # AllMsgs) => (sendResult = "returned" /\ accepted >= 1)
  /\ (QuitsWithPending # {}) => (sendResult = "returned" /\ msgKind = "summary")

C1_Witness ==
  /\ pc = "done"
  /\ outcome = "Committed"
  /\ Len(mailbox) >= 2
  /\ durable = {}

(***************************************************************************)
(* C2                                                                      *)
(***************************************************************************)
\* C2: once sending the summary has raised, the mailbox holds every message
\* it held at the start, no quit is ever sent with deletes staged, every
\* quit comes after a reset, and the run does not end before it called reset.
C2_SendFailureAborts ==
  (msgKind = "summary" /\ sendResult = "raised") =>
    /\ durable = AllMsgs
    /\ QuitsWithPending = {}
    /\ \A q \in Issued("quit") : \E r \in Issued("rset") : r < q
    /\ Terminal => Issued("rset") # {}

C2_Witness ==
  /\ pc = "done"
  /\ outcome = "Aborted"
  /\ attempt_number = stop_max_attempt_number
  /\ sendErr \in TransportErrors
  /\ Len(mailbox) >= 1

(***************************************************************************)
(* C3                                                                      *)
(***************************************************************************)
C3_State ==
  /\ attempt_number <= stop_max_attempt_number
  /\ (sendResult = "raised" /\ sendErr \in TransportErrors) =>
       /\ attempt_number = stop_max_attempt_number
       /\ sendErr = attemptErr
       /\ waited = (stop_max_attempt_number - 1) * wait_fixed
  /\ sendResult = "returned" =>
       /\ attempt_number \in 1..stop_max_attempt_number
       /\ waited = (attempt_number - 1) * wait_fixed
       /\ accepted >= 1

\* C3: send_email raises only after exactly 15 attempts, 14 waits of
\* wait_fixed each, and then raises the error of the last attempt; when an
\* attempt succeeds it returns at once; after it returned or raised the
\* transport is not invoked again.
C3_RetryBound ==
  /\ []C3_State
  /\ [][sendResult # "none" => attempt_number' = attempt_number]_vars

C3_Witness ==
  /\ sendResult = "raised"
  /\ sendErr = "send_message"
  /\ attempt_number = 15
  /\ waited = 840000
  /\ accepted = 0

(***************************************************************************)
(* C4                                                                      *)
(***************************************************************************)
RetrDele == SelectSeq(popLog, LAMBDA e : e[1] \in {"retr", "dele"})
LoopDone == pc = "render" \/ msgKind = "summary"

\* C4: the retrieve and delete commands alternate, retr k then dele k, for
\* k = 1, 2, ... in server order; when the loop is left every message of the
\* mailbox has been retrieved and marked; and a run that ends after the send
\* returned has committed: no message is left in the mailbox.
C4_MarkAllThenCommit ==
  /\ \A k \in 1..Len(RetrDele) :
       RetrDele[k] = << (IF k % 2 = 1 THEN "retr" ELSE "dele"), (k + 1) \div 2 >>
  /\ deleted \subseteq {popLog[k][2] : k \in Issued("retr")}
  /\ LoopDone => (Len(mailbox) >= 1 /\ Len(RetrDele) = 2 * Len(mailbox))
  /\ pc = "render" => deleted = AllMsgs
  /\ (pc = "done" /\ msgKind = "summary" /\ sendResult = "returned") =>
       (outcome = "Committed" /\ durable = {})

C4_Witness ==
  /\ pc = "done"
  /\ outcome = "Committed"
  /\ Len(mailbox) = 2
  /\ mailbox[1].parts = << Part("text/html", <<>>) >>
  /\ durable = {}

(***************************************************************************)
(* C5                                                                      *)
(***************************************************************************)
\* C5: with an empty mailbox the run never retrieves, deletes or resets,
\* never sends a quit with deletes staged (its one quit closes a session
\* with nothing staged), builds only the empty notice, and ends, delivered
\* or not, after trying to send it.
C5_EmptyMailboxNoCommitNoAbort ==
  Len(mailbox) = 0 =>
    /\ Issued("rset") = {}
    /\ Issued("dele") = {}
    /\ Issued("retr") = {}
    /\ QuitsWithPending = {}
    /\ Cardinality(Issued("quit")) <= 1
    /\ msgKind \in {"none", "empty"}
    /\ linesUL = <<>>
    /\ (pc = "done" /\ outcome # "ConfigError") =>
         /\ msgKind = "empty"
         /\ attempt_number >= 1
         /\ outcome \in {"EmptySent", "EmptyNotSent"}

C5_Witness ==
  /\ Len(mailbox) = 0
  /\ pc = "done"
  /\ outcome = "EmptyNotSent"
  /\ attempt_number = stop_max_attempt_number

(***************************************************************************)
(* C6                                                                      *)
(***************************************************************************)
\* C6 as stated: the empty notice is built exactly when nothing was fetched.
C6_Original ==
  msgKind # "none" => (msgKind = "empty" <=> email_data = <<>>)

\* C6: the empty notice is built exactly when the mailbox lists no message;
\* with at least one message the summary is built, whatever was fetched.
C6_BranchOnMessageCount ==
  msgKind # "none" =>
    /\ num_messages = Len(mailbox)
    /\ msgKind = "empty" <=> num_messages = 0

C6_Witness ==
  /\ msgKind = "summary"
  /\ email_data = <<>>
  /\ linesUL = <<>>
  /\ sendResult = "returned"
  /\ outcome = "Committed"

(***************************************************************************)
(* C7                                                                      *)
(***************************************************************************)
IsPlainWith(k, bodies) == mailbox[k] \in {PlainMsg(b, TRUE) : b \in bodies}

\* C7 as stated: a run over plain messages that are empty, blank or valid,
\* with one of each kind at least and no failing call, ends Committed with
\* exactly the valid messages' items in the report.
C7_BlankBodySkipped ==
  ( /\ Terminal
    /\ outcome # "ConfigError"
    /\ ~fault
    /\ \A k \in AllMsgs : IsPlainWith(k, {B_empty, B_blank, B_ok})
    /\ \E k \in AllMsgs : IsPlainWith(k, {B_empty, B_blank})
    /\ \E k \in AllMsgs : IsPlainWith(k, {B_ok}) )
  =>
    /\ outcome = "Committed"
    /\ durable = {}
    /\ [k \in 1..Len(linesUL) |-> linesUL[k].date.local]
         = SelectSeq(Idx(Len(mailbox)), LAMBDA k : IsPlainWith(k, {B_ok}))
    /\ \A k \in 1..Len(linesUL) : linesUL[k].color = Green

(***************************************************************************)
(* C8                                                                      *)
(***************************************************************************)
\* the text/plain parts of message k that carry a non-empty payload
PlainParts(k) ==
  SelectSeq(mailbox[k].parts,
            LAMBDA p : p.ctype = "text/plain" /\ p.payload # <<>>)

RECURSIVE PartDates(_)
\* message number of every such part, in enumeration and walk order
PartDates(k) ==
  IF k > Len(mailbox) THEN <<>>
  ELSE [j \in 1..Len(PlainParts(k)) |-> k] \o PartDates(k + 1)

\* the report exists: the rendering ended without an exception
Rendered == msgKind = "summary" /\ sendErr \notin RenderErrors
ItemDates == [k \in 1..Len(linesUL) |-> linesUL[k].date.local]

\* C8 as stated: one item for each message with a non-empty plain-text part.
C8_Original ==
  Rendered =>
    ItemDates = SelectSeq(Idx(Len(mailbox)), LAMBDA k : PlainParts(k) # <<>>)

\* C8: one item for each text/plain part with a non-empty payload, in the
\* order the messages were enumerated and their parts walked.
C8_ItemsFollowPlainParts ==
  Rendered => ItemDates = PartDates(1)

C8_Witness ==
  /\ Rendered
  /\ sendResult = "returned"
  /\ Len(mailbox) = 1
  /\ Len(linesUL) = 2

(***************************************************************************)
(* C9, C10                                                                 *)
(***************************************************************************)
Built == pc # "render"
TheBody == email_data[1].body
TheLines == splitlines(TheBody)
HasNonBlank == \E k \in 1..Len(TheLines) : TheLines[k] # <<>>
\* the last line of the body that is not empty
LastNonBlank ==
  TheLines[CHOOSE k \in 1..Len(TheLines) :
             /\ TheLines[k] # <<>>
             /\ \A j \in (k + 1)..Len(TheLines) : TheLines[j] = <<>>]
\* a Message: line with no Error code: line before it
OrphanMessage ==
  \E k \in 1..Len(TheLines) :
    /\ startswith(TheLines[k], S_Message)
    /\ \A j \in 1..(k - 1) : ~startswith(TheLines[j], S_Error_code)

RenderedRed ==
  /\ sendErr = "none"
  /\ Len(linesUL) = 1
  /\ linesUL[1].color = Red
  /\ linesUL[1].error_info # <<>>
  /\ linesUL[1].error_info = extract_errors(TheBody).html_output

\* C9 as stated: a last non-blank line with "has failed" gives a red item
\* with the error list, whatever else the line or the body holds.
C9_Original ==
  (Built /\ HasNonBlank /\ contains(LastNonBlank, S_has_failed)) => RenderedRed

\* C9: a last non-blank line with "has failed" and without "has succeeded"
\* takes the failure branch: the item is red with the list of extract_errors,
\* unless a Message: line precedes every Error code: line, when
\* extract_errors raises and no item is rendered.
C9_FailedWithoutSucceeded ==
  ( /\ Built
    /\ HasNonBlank
    /\ contains(LastNonBlank, S_has_failed)
    /\ ~contains(LastNonBlank, S_has_succeeded) )
  =>
    IF OrphanMessage
      THEN sendErr = "UnboundLocalError" /\ linesUL = <<>> /\ pc = "except"
      ELSE RenderedRed

C9_Witness ==
  /\ Built
  /\ TheBody = B_fail
  /\ RenderedRed
  /\ linesUL[1].error_info = << S_Error_code \o <<"5", ":", "D">> >>

\* C10: a last non-blank line with "has succeeded" gives a dark green item
\* with no error list, whatever else the body holds.
C10_SucceededIsGreen ==
  (Built /\ HasNonBlank /\ contains(LastNonBlank, S_has_succeeded)) =>
    /\ sendErr = "none"
    /\ Len(linesUL) = 1
    /\ linesUL[1].color = Green
    /\ linesUL[1].error_info = <<>>

C10_Witness ==
  /\ Built
  /\ Len(linesUL) = 1
  /\ linesUL[1].color = Green
  /\ \E k \in 1..Len(TheLines) : startswith(TheLines[k], S_Error_code)
  /\ \E k \in 1..Len(TheLines) : startswith(TheLines[k], S_Message)

(***************************************************************************)
(* extract_errors on its own: the run stands before send_backups_email     *)
(* with one plain-text message fetched, whose body is a failure report:    *)
(* up to MaxErrLines lines of ErrLines, then the line "B has failed."      *)
(***************************************************************************)
L_failed == <<"B"," ","h","a","s"," ","f","a","i","l","e","d",".">>

ErrLines ==
  {<<"E","r","r","o","r"," ","c","o","d","e",":","5">>,
   <<"E","r","r","o","r"," ","c","o","d","e",":","7">>,
   <<"M","e","s","s","a","g","e",":","D">>,
   <<"M","e","s","s","a","g","e",":","E">>,
   <<"x">>}

ErrBodies ==
  {JoinLines(ls \o << L_failed >>) :
     ls \in UNION {[1..n -> ErrLines] : n \in 0..MaxErrLines}}

InitExtract ==
  /\ \E body \in ErrBodies :
       /\ InitRun(<< PlainMsg(body, TRUE) >>)
       /\ email_data = << [body |-> body, date |-> 1] >>
  /\ pc = "render"
  /\ deleted = {1}
  /\ session = "transaction"
  /\ popLog = << <<"connect", 0>>, <<"user", 0>>, <<"pass", 0>>, <<"list", 0>>,
                 <<"retr", 1>>, <<"dele", 1>> >>
  /\ num_messages = 1
  /\ i = 1
  /\ log = <<>>

NextExtract == BuildReport

SpecExtract == InitExtract /\ [][NextExtract]_vars

(***************************************************************************)
(* C11, C12, C14: vocabulary                                               *)
(***************************************************************************)
IsCode(k) == startswith(TheLines[k], S_Error_code)
IsMessage(k) == startswith(TheLines[k], S_Message)
\* a Message: line with an Error code: line somewhere before it
Matched(k) == IsMessage(k) /\ \E j \in 1..(k - 1) : IsCode(j)
MatchedIdx == SelectSeq(Idx(Len(TheLines)), Matched)
\* the Error code: line most recently seen before line k
CodeFor(k) ==
  TheLines[CHOOSE j \in 1..(k - 1) :
             IsCode(j) /\ \A m \in (j + 1)..(k - 1) : ~IsCode(m)]
\* "code:message" of the pair closed by the Message: line k
PairText(k) ==
  CodeFor(k) \o <<":">> \o SubSeq(TheLines[k], 9, Len(TheLines[k]))
Pairs == [n \in 1..Len(MatchedIdx) |-> PairText(MatchedIdx[n])]
\* positions of the pairs that repeat no earlier pair
FirstSeen ==
  SelectSeq(Idx(Len(Pairs)),
            LAMBDA n : \A m \in 1..(n - 1) : Pairs[m] # Pairs[n])
\* the entries of the rendered list: the texts of its non-empty <li>
Entries == SelectSeq(linesUL[1].error_info, LAMBDA e : e # <<>>)
RenderedOne == sendErr = "none" /\ Len(linesUL) = 1

(***************************************************************************)
(* C11                                                                     *)
(***************************************************************************)
\* C11 as stated: for a failure body (here one in which every Message: line
\* has an Error code: line before it) with N pairs of which D repeat an
\* earlier pair, the list has N - D entries, the pairs in order of first
\* occurrence, and deduplicating it again changes nothing.
C11_DedupCount ==
  (Built /\ ~OrphanMessage) =>
    /\ RenderedOne
    /\ Len(Entries) = Len(FirstSeen)
    /\ Entries = [n \in 1..Len(FirstSeen) |-> Pairs[FirstSeen[n]]]
    /\ unique_everseen(Entries) = Entries

(***************************************************************************)
(* C12                                                                     *)
(***************************************************************************)
\* an Error code: line that no Message: line closes: the next line that is
\* an Error code: or a Message: line is an Error code: line, or there is none
Dangling(k) ==
  /\ IsCode(k)
  /\ \A m \in (k + 1)..Len(TheLines) :
       IsMessage(m) => \E j \in (k + 1)..(m - 1) : IsCode(j)
\* the body without those lines
WithoutDangling ==
  JoinLines([n \in 1..Len(SelectSeq(Idx(Len(TheLines)), LAMBDA k : ~Dangling(k)))
               |-> TheLines[SelectSeq(Idx(Len(TheLines)),
                                      LAMBDA k : ~Dangling(k))[n]]])

\* C12: an Error code: line that no Message: line closes adds no entry and
\* raises nothing: the list is the one of the body without those lines, it
\* has one entry at most for each Message: line, and it is empty when the
\* body has no Message: line.
C12_DanglingCodeIgnored ==
  (Built /\ ~OrphanMessage) =>
    /\ RenderedOne
    /\ linesUL[1].error_info = extract_errors(WithoutDangling).html_output
    /\ Len(Entries) <= Len(MatchedIdx)
    /\ (MatchedIdx = <<>>) => (Entries = <<>>)

C12_Witness ==
  /\ Built
  /\ RenderedOne
  /\ \E k \in 1..Len(TheLines) : Dangling(k)
  /\ \E k \in 1..Len(TheLines) : Matched(k)
  /\ Len(Entries) = 1

(***************************************************************************)
(* C14                                                                     *)
(***************************************************************************)
\* C14 as stated: every Message: line with an Error code: line before it
\* gives the entry "code:message" of that Error code: line and of its own
\* text after the first 8 characters; the list holds exactly those entries.
C14_MessageClosesLatestCode ==
  (Built /\ ~OrphanMessage) =>
    /\ RenderedOne
    /\ \A n \in 1..Len(Pairs) :
         \E e \in 1..Len(Entries) : Entries[e] = Pairs[n]
    /\ \A e \in 1..Len(Entries) :
         \E n \in 1..Len(Pairs) : Entries[e] = Pairs[n]

(***************************************************************************)
(* C13                                                                     *)
(***************************************************************************)
\* C13: when loading the configuration fails the error is logged and the
\* run is over: no POP3 command was or will be issued, no session opened,
\* no message built and no send attempt made.
C13_ConfigErrorStopsRun ==
  outcome = "ConfigError" =>
    /\ pc = "done"
    /\ log = << <<"error", "Could not load configuration">> >>
    /\ popLog = <<>>
    /\ session = "none"
    /\ msgKind = "none"
    /\ attempt_number = 0
    /\ accepted = 0
    /\ durable = AllMsgs

C13_Witness ==
  /\ outcome = "ConfigError"
  /\ pc = "done"
  /\ Len(mailbox) >= 1

(***************************************************************************)
(* C15                                                                     *)
(***************************************************************************)
\* messages with the contents the claim lists
ListedShapes == MsgShapes \ {PlainMsg(B_blank, TRUE), PlainMsg(B_ok, FALSE)}

\* C15 as stated: a run over such messages in which no call fails ends
\* Committed, with the summary delivered.
C15_AnomaliesNeverStop ==
  ( /\ Terminal
    /\ outcome # "ConfigError"
    /\ ~fault
    /\ Len(mailbox) >= 1
    /\ \A k \in AllMsgs : mailbox[k] \in ListedShapes )
  => (outcome = "Committed" /\ accepted = 1)

(***************************************************************************)
(* C16                                                                     *)
(***************************************************************************)
ReadCommands == {"connect", "user", "pass", "list", "retr", "dele"}
\* a call failed, and it was neither an SMTP call nor rset nor quit: a
\* mailbox read call failed
ReadFault ==
  /\ fault
  /\ attempt_number = 0
  /\ Issued("quit") = {}
  /\ Issued("rset") = {}

\* C16: after a failed mailbox read call the run is over with an uncaught
\* exception: the failed command is the last one issued, no command was
\* issued twice, nothing was built or sent, the session ended without quit
\* and the mailbox holds every message.
C16_ReadErrorEndsRun ==
  ReadFault =>
    /\ pc = "crashed"
    /\ outcome = "Crashed"
    /\ session = "dropped"
    /\ popLog[Len(popLog)][1] \in ReadCommands
    /\ \A j, k \in 1..Len(popLog) : j # k => popLog[j] # popLog[k]
    /\ msgKind = "none"
    /\ accepted = 0
    /\ durable = AllMsgs

C16_Witness ==
  /\ ReadFault
  /\ pc = "crashed"
  /\ popLog[Len(popLog)] = <<"dele", 2>>
  /\ deleted = {1}
  /\ durable = {1, 2}

(***************************************************************************)
(* C17                                                                     *)
(***************************************************************************)
\* message kinds for the runs whose termination is checked: one for each way
\* through the loop and the rendering (an item is rendered, the rendering
\* raises, the part is ignored, the walk raises)
FairShapes ==
  {PlainMsg(B_ok, TRUE), PlainMsg(B_blank, TRUE),
   [has_date |-> TRUE, parts |-> << Part("text/html", <<>>) >>],
   PlainMsg(B_ok, FALSE)}

InitFair ==
  /\ Init
  /\ \A k \in 1..Len(mailbox) : mailbox[k] \in FairShapes

\* every call returns or raises, and the single thread then goes on
SpecFair == InitFair /\ [][Next]_vars /\ WF_vars(Next)

FetchPcs == {"main", "connect", "user", "pass", "list", "retr", "dele"}

\* C17: every run ends, returned or crashed; it makes 15 send attempts at
\* most, lists the mailbox once at most, and never goes back to fetching
\* once it has left it.
C17_Terminates ==
  /\ <>Terminal
  /\ [](attempt_number <= stop_max_attempt_number)
  /\ [](Cardinality(Issued("connect")) <= 1 /\ Cardinality(Issued("list")) <= 1)
  /\ [][pc \notin FetchPcs => pc' \notin FetchPcs]_vars

C17_Witness ==
  /\ pc = "done"
  /\ outcome = "Committed"
  /\ attempt_number = stop_max_attempt_number
  /\ Len(mailbox) = 2

(***************************************************************************)
(* C19                                                                     *)
(***************************************************************************)
\* C19 as stated: the SMTP server accepts one copy at most in a run.
C19_AtMostOneDelivery == accepted <= 1

(***************************************************************************)
(* The summary line on its own: the run stands before send_backups_email   *)
(* with one plain-text message fetched, whose body has up to MaxSumLines   *)
(* lines of SumLines, with or without a final line break.                  *)
(***************************************************************************)
SumLines == {<<>>, <<" ">>, <<"A">>, <<"A", ".">>, <<"A", ".", ".">>, <<".">>}

SumBodies ==
  {JoinLines(ls) \o end :
     ls \in UNION {[1..n -> SumLines] : n \in 0..MaxSumLines},
     end \in {<<>>, <<NL>>}}

InitSummary ==
  /\ \E body \in SumBodies :
       /\ InitRun(<< PlainMsg(body, TRUE) >>)
       /\ email_data = << [body |-> body, date |-> 1] >>
  /\ pc = "render"
  /\ deleted = {1}
  /\ session = "transaction"
  /\ popLog = << <<"connect", 0>>, <<"user", 0>>, <<"pass", 0>>, <<"list", 0>>,
                 <<"retr", 1>>, <<"dele", 1>> >>
  /\ num_messages = 1
  /\ i = 1
  /\ log = <<>>

NextSummary == BuildReport

SpecSummary == InitSummary /\ [][NextSummary]_vars

(***************************************************************************)
(* C18                                                                     *)
(***************************************************************************)
\* s without one trailing period
WithoutOnePeriod(s) ==
  IF s # <<>> /\ s[Len(s)] = "." THEN SubSeq(s, 1, Len(s) - 1) ELSE s

\* C18 as stated: the text of the item is the last non-blank line without
\* one trailing period.
C18_Original ==
  (Built /\ HasNonBlank) =>
    (RenderedOne /\ linesUL[1].text = WithoutOnePeriod(LastNonBlank))

\* C18: the text of the item is the last non-empty line without any of its
\* trailing periods: it is a prefix of that line, does not end with a
\* period, and what it leaves out are periods only.
C18_AllTrailingPeriodsStripped ==
  (Built /\ HasNonBlank) =>
    /\ RenderedOne
    /\ LET text == linesUL[1].text IN
         /\ Len(text) <= Len(LastNonBlank)
         /\ text = SubSeq(LastNonBlank, 1, Len(text))
         /\ (text # <<>>) => (text[Len(text)] # ".")
         /\ \A k \in (Len(text) + 1)..Len(LastNonBlank) : LastNonBlank[k] = "."

C18_Witness ==
  /\ Built
  /\ RenderedOne
  /\ TheLines = << <<"A", ".", ".">>, <<>> >>
  /\ linesUL[1].text = <<"A">>

====
